---- MODULE Spec2Model ----
(***************************************************************************)
(* clip: a command-line clipboard history manager (main.go).               *)
(*                                                                         *)
(* The model follows the program: the application object (Items, index),   *)
(* the store operations Add / Get / Clear / Reindex / Remove, the index    *)
(* resolver resolveIdx, the command interpreter parse and the executor     *)
(* handle.  Texts are sequences of one-character strings so that           *)
(* strings.TrimSpace and strings.ReplaceAll are computed, not assumed.     *)
(* Positions are 0-based as in the Go code; Items is a TLA+ sequence, so   *)
(* position p is Items[p + 1].                                             *)
(***************************************************************************)
EXTENDS Integers, Sequences, FiniteSets, TLC

VARIABLES
    Items,   \* application.Items: the history, oldest first
    index,   \* application.index: hash -> position
    cl,      \* the command line of the last invocation (flags, args, stdin)
    flags,   \* the Flags value parse returned for it
    out,     \* what the last invocation wrote to stdout, one element per Out/Outln
    err,     \* how the last invocation ended (Nil or an error kind)
    pre,     \* the application as it was before the last invocation
    pc,      \* "ready": application constructed; "done": the invocation ran
    file,    \* the history held by the data file (data.json)
    log,     \* the steps of main the current invocation has taken, in order
    scn,     \* progress through the a, b, c scenario (history variable)
    rIdx,    \* resolver study: the relative index given to resolveIdx
    rLen,    \* resolver study: the length given to resolveIdx
    rRes,    \* resolver study: what resolveIdx returned
    disk,    \* race study: the characters of the data file
    procs,   \* race study: each invocation's position and application
    last     \* race study: the invocation that wrote the file last (0: none)

vars ==
    <<Items, index, cl, flags, out, err, pre, pc, file, log, scn, rIdx, rLen, rRes,
      disk, procs, last>>

----------------------------------------------------------------------------
(* Bounds of the model *)

\* a delete request carries at most this many indices
MaxDelete == 3
\* width in bits of the machine integer resolveIdx computes with
IntBits == 5
\* resolver study: lengths 0 .. MaxLen
MaxLen == 6

----------------------------------------------------------------------------
(* Characters and texts *)

SP == " "
NL == "\n"
BS == "\\"

\* the characters strings.TrimSpace removes (those the model's texts use)
Whitespace == {" ", "\n", "\t", "\r"}

RECURSIVE TrimLeft(_)
TrimLeft(s) ==
    IF s # <<>> /\ Head(s) \in Whitespace THEN TrimLeft(Tail(s)) ELSE s

RECURSIVE TrimRight(_)
TrimRight(s) ==
    IF s # <<>> /\ s[Len(s)] \in Whitespace
    THEN TrimRight(SubSeq(s, 1, Len(s) - 1))
    ELSE s

\* strings.TrimSpace
TrimSpace(s) == TrimRight(TrimLeft(s))

\* does s start with the non-empty sequence old
HasPrefix(s, old) == Len(s) >= Len(old) /\ SubSeq(s, 1, Len(old)) = old

\* strings.ReplaceAll(s, old, new) for a non-empty old: leftmost,
\* non-overlapping occurrences
RECURSIVE ReplaceAll(_, _, _)
ReplaceAll(s, old, new) ==
    IF s = <<>> THEN <<>>
    ELSE IF HasPrefix(s, old)
         THEN new \o ReplaceAll(SubSeq(s, Len(old) + 1, Len(s)), old, new)
         ELSE <<Head(s)>> \o ReplaceAll(Tail(s), old, new)

\* strings.ReplaceAll(s, "\\n", "\n"): the two characters backslash, n
\* become one newline
Unescape(s) == ReplaceAll(s, <<BS, "n">>, <<NL>>)

\* strings.ReplaceAll(s, "\n", "\\n"): a newline becomes backslash, n
Escape(s) == ReplaceAll(s, <<NL>>, <<BS, "n">>)

----------------------------------------------------------------------------
(* The history store *)

\* the SHA-1 digest, base64 encoded, of s: modelled as an injective tagging
\* of s (digest collisions are not modelled)
Sha1(s) == <<"sha1">> \o s

\* application.hash: digest of the trimmed data
hash(data) == Sha1(TrimSpace(data))

EmptyIndex == [h \in {} |-> 0]

\* the application value: the sequence and the map
App(items, idx) == [Items |-> items, index |-> idx]

NewItem(data, h) == [Data |-> data, Hash |-> h]

\* application.Reindex: a fresh map; the loop assigns index[item.Hash] = i in
\* order, so the last position of a hash wins
Reindex(app) ==
    LET items  == app.Items
        hashes == {items[i].Hash : i \in DOMAIN items}
        lastOf(h) == CHOOSE i \in DOMAIN items :
                        /\ items[i].Hash = h
                        /\ \A j \in DOMAIN items : items[j].Hash = h => j <= i
    IN  App(items, [h \in hashes |-> lastOf(h) - 1])

\* Remove without its deferred Reindex
RemoveNoReindex(app, idx) ==
    LET items == app.Items
        n     == Len(items)
    IN  IF idx < 0 \/ idx >= n THEN app
        ELSE IF idx = 0 /\ n = 1 THEN App(<<>>, EmptyIndex)
        ELSE App(SubSeq(items, 1, idx) \o SubSeq(items, idx + 2, n), app.index)

\* Remove without the case of the only entry: the sequence is sliced and
\* the map is rebuilt as for any other first entry
RemoveNoSoleCase(app, idx) ==
    LET items == app.Items
        n     == Len(items)
    IN  IF idx < 0 \/ idx >= n THEN app
        ELSE IF idx = 0 THEN App(Tail(items), app.index)
        ELSE IF idx = n - 1 THEN Reindex(App(SubSeq(items, 1, n - 1), app.index))
        ELSE Reindex(App(SubSeq(items, 1, idx) \o SubSeq(items, idx + 2, n),
                         app.index))

\* application.Remove
Remove(app, idx) ==
    LET items == app.Items
        n     == Len(items)
    IN  IF idx < 0 \/ idx >= n THEN app
        ELSE IF idx = 0 /\ n = 1 THEN App(<<>>, EmptyIndex)
        ELSE IF idx = 0 THEN Reindex(App(Tail(items), app.index))
        ELSE IF idx = n - 1 THEN Reindex(App(SubSeq(items, 1, n - 1), app.index))
        ELSE Reindex(App(SubSeq(items, 1, idx) \o SubSeq(items, idx + 2, n),
                         app.index))

\* index[h] = p on a Go map: insert or overwrite
MapSet(m, h, p) == [k \in (DOMAIN m) \cup {h} |-> IF k = h THEN p ELSE m[k]]

\* Add without the lookup: always appends
AddNoDedup(app, data) ==
    LET h      == hash(data)
        items2 == Append(app.Items, NewItem(data, h))
    IN  App(items2, MapSet(app.index, h, Len(items2) - 1))

\* Add without the "else if exists" branch: an entry held elsewhere stays
AddForgetsRemove(app, data) ==
    LET h      == hash(data)
        exists == h \in DOMAIN app.index
        items2 == Append(app.Items, NewItem(data, h))
    IN  IF exists /\ app.index[h] = Len(app.Items) - 1 THEN app
        ELSE App(items2, MapSet(app.index, h, Len(items2) - 1))

\* application.Add
Add(app, data) ==
    LET h      == hash(data)
        exists == h \in DOMAIN app.index
    IN  IF exists /\ app.index[h] = Len(app.Items) - 1 THEN app
        ELSE LET a1     == IF exists THEN Remove(app, app.index[h]) ELSE app
                 items2 == Append(a1.Items, NewItem(data, h))
             IN  App(items2, MapSet(a1.index, h, Len(items2) - 1))

\* application.Get: the item at a position, or nil
Nil == "nil"
InRange(app, position) == position >= 0 /\ position < Len(app.Items)
Get(app, position) == app.Items[position + 1]

\* application.Clear
Clear(app) == App(<<>>, EmptyIndex)

----------------------------------------------------------------------------
(* The index resolver *)

\* the machine integers: IntBits wide, two's complement
IntMin == -(2 ^ (IntBits - 1))
IntMax == (2 ^ (IntBits - 1)) - 1
Wrap(x) == ((x - IntMin) % (2 ^ IntBits)) + IntMin

OutOfBounds == "OutOfBounds"

Resolved(v, e) == [idx |-> v, err |-> e]

\* resolveIdx without the "- 1" of either branch
resolveIdxOffByOne(idx, len) ==
    LET v == IF idx < 0 THEN Wrap(idx * (-1)) ELSE Wrap(len - idx)
    IN  IF v < 0 \/ v >= len THEN Resolved(0, OutOfBounds) ELSE Resolved(v, Nil)

\* resolveIdx with the bounds check "idx >= len" alone
resolveIdxNoLowerCheck(idx, len) ==
    LET v == IF idx < 0 THEN Wrap(Wrap(idx * (-1)) - 1)
                        ELSE Wrap(Wrap(len - idx) - 1)
    IN  IF v >= len THEN Resolved(0, OutOfBounds) ELSE Resolved(v, Nil)

\* resolveIdx: relative index -> absolute position, or (0, error)
resolveIdx(idx, len) ==
    LET v == IF idx < 0 THEN Wrap(Wrap(idx * (-1)) - 1)
                        ELSE Wrap(Wrap(len - idx) - 1)
    IN  IF v < 0 \/ v >= len THEN Resolved(0, OutOfBounds) ELSE Resolved(v, Nil)

----------------------------------------------------------------------------
(* Flags and operations *)

OpHelp      == "OpHelp"
OpVersion   == "OpVersion"
OpAdd       == "OpAdd"
OpPaste     == "OpPaste"
OpDelete    == "OpDelete"
OpDeleteAll == "OpDeleteAll"
OpList      == "OpList"

\* var flags Flags: the zero value with Operation = OpHelp
ZeroFlags ==
    [Operation |-> OpHelp, Text |-> <<>>, Silent |-> FALSE, PasteIndex |-> 0,
     DeleteIndices |-> <<>>, ListArgs |-> <<0, 0>>]

\* var version = "v0.0.0"
version == <<"v", "0", ".", "0", ".", "0">>

\* the error kinds an invocation can end with
EmptyInput    == "EmptyInput"
NotFound      == "NotFound"
Panic         == "Panic"
UnknownOp     == "UnknownOp"
ErrHelp       == "ErrHelp"
Conflicting   == "ConflictingArguments"

\* what handle leaves behind: the application, the output, the error
Outcome(app, o, e) == [app |-> app, out |-> o, err |-> e]

----------------------------------------------------------------------------
(* The operation executor *)

\* case OpAdd
HandleAdd(app, f) ==
    IF f.Text = <<>> THEN Outcome(app, <<>>, EmptyInput)
    ELSE Outcome(Add(app, f.Text), IF f.Silent THEN <<>> ELSE <<f.Text>>, Nil)

\* case OpPaste without the Remove and Add that promote the entry
HandlePasteNoPromote(app, f) ==
    IF Len(app.Items) = 0 THEN Outcome(app, <<>>, Nil)
    ELSE LET r == resolveIdx(f.PasteIndex, Len(app.Items))
         IN  IF r.err # Nil THEN Outcome(app, <<>>, r.err)
             ELSE Outcome(app, <<Get(app, r.idx).Data>>, Nil)

\* case OpPaste without the early return on an empty history
HandlePasteNoEmptyCheck(app, f) ==
    LET r == resolveIdx(f.PasteIndex, Len(app.Items))
    IN  IF r.err # Nil THEN Outcome(app, <<>>, r.err)
        ELSE IF ~InRange(app, r.idx) THEN Outcome(app, <<>>, NotFound)
        ELSE LET item == Get(app, r.idx)
                 app2 == IF r.idx # Len(app.Items) - 1
                         THEN Add(Remove(app, r.idx), item.Data)
                         ELSE app
             IN  Outcome(app2, <<item.Data>>, Nil)

\* case OpPaste
HandlePaste(app, f) ==
    IF Len(app.Items) = 0 THEN Outcome(app, <<>>, Nil)
    ELSE LET r == resolveIdx(f.PasteIndex, Len(app.Items))
         IN  IF r.err # Nil THEN Outcome(app, <<>>, r.err)
             ELSE IF ~InRange(app, r.idx) THEN Outcome(app, <<>>, NotFound)
             ELSE LET item == Get(app, r.idx)
                      app2 == IF r.idx # Len(app.Items) - 1
                              THEN Add(Remove(app, r.idx), item.Data)
                              ELSE app
                  IN  Outcome(app2, <<item.Data>>, Nil)

\* the loop "for i, idx := range indices": every index resolved against the
\* current length; the first failure is returned
ResolveAll(indices, len) ==
    LET rs == [i \in DOMAIN indices |-> resolveIdx(indices[i], len)]
        bad == {i \in DOMAIN indices : rs[i].err # Nil}
    IN  IF bad = {} THEN Resolved([i \in DOMAIN indices |-> rs[i].idx], Nil)
        ELSE Resolved(<<>>, rs[CHOOSE i \in bad : \A j \in bad : i <= j].err)

\* insert x into the ascending sequence s
RECURSIVE Insert(_, _)
Insert(s, x) ==
    IF s = <<>> THEN <<x>>
    ELSE IF x <= Head(s) THEN <<x>> \o s
    ELSE <<Head(s)>> \o Insert(Tail(s), x)

\* slices.Sort: ascending
RECURSIVE SortAsc(_)
SortAsc(s) == IF s = <<>> THEN <<>> ELSE Insert(SortAsc(Tail(s)), Head(s))

\* slices.Reverse
Reverse(s) == [i \in 1..Len(s) |-> s[Len(s) + 1 - i]]

\* the sort without the slices.Reverse: ascending
SortWithoutReverse(s) == SortAsc(s)

\* slices.Sort then slices.Reverse
SortDescending(s) == Reverse(SortAsc(s))

\* "for _, i := range indices { app.Remove(i) }"
RECURSIVE RemoveEach(_, _)
RemoveEach(app, positions) ==
    IF positions = <<>> THEN app
    ELSE RemoveEach(Remove(app, Head(positions)), Tail(positions))

\* the indices a delete works on
DeleteRequest(f) == IF Len(f.DeleteIndices) = 0 THEN <<0>> ELSE f.DeleteIndices

\* case OpDelete that skips the indices that do not resolve and removes the
\* others before it reports the error
HandleDeleteSkipInvalid(app, f) ==
    LET req == DeleteRequest(f)
        ok  == SelectSeq(req, LAMBDA i : resolveIdx(i, Len(app.Items)).err = Nil)
        r   == ResolveAll(ok, Len(app.Items))
    IN  Outcome(RemoveEach(app, SortDescending(r.idx)), <<>>,
                IF Len(ok) = Len(req) THEN Nil ELSE OutOfBounds)

\* case OpDelete
HandleDelete(app, f) ==
    LET r == ResolveAll(DeleteRequest(f), Len(app.Items))
    IN  IF r.err # Nil THEN Outcome(app, <<>>, r.err)
        ELSE Outcome(RemoveEach(app, SortDescending(r.idx)), <<>>, Nil)

\* the lines OpList prints for "list all": newest first, newlines escaped
ListAll(items) == [i \in 1..Len(items) |-> Escape(items[Len(items) + 1 - i].Data)]

\* case OpList
HandleList(app, f) ==
    IF Len(app.Items) = 0 THEN Outcome(app, <<>>, Nil)
    ELSE IF f.ListArgs[1] = 0 /\ f.ListArgs[2] = 0
         THEN Outcome(app, ListAll(app.Items), Nil)
         ELSE Outcome(app, <<>>, Panic)

\* application.handle
handle(app, f) ==
    CASE f.Operation = OpHelp      -> Outcome(app, <<>>, Nil)
      [] f.Operation = OpVersion   -> Outcome(app, <<version>>, Nil)
      [] f.Operation = OpAdd       -> HandleAdd(app, f)
      [] f.Operation = OpPaste     -> HandlePaste(app, f)
      [] f.Operation = OpDeleteAll -> Outcome(Clear(app), <<>>, Nil)
      [] f.Operation = OpDelete    -> HandleDelete(app, f)
      [] f.Operation = OpList      -> HandleList(app, f)
      [] OTHER                     -> Outcome(app, <<>>, UnknownOp)

----------------------------------------------------------------------------
(* The command interpreter *)

\* getPipeInput without the tests on the trimmed data
getPipeInputUntested(stdin) == IF stdin.piped THEN stdin.data ELSE <<>>

\* getPipeInput: the piped data, or "" when stdin is a terminal or the data
\* is empty after trimming, raw or with \n unescaped
getPipeInput(stdin) ==
    IF stdin.piped
    THEN IF TrimSpace(stdin.data) = <<>> THEN <<>>
         ELSE IF TrimSpace(Unescape(stdin.data)) = <<>> THEN <<>>
         ELSE stdin.data
    ELSE <<>>

Parsed(f, e) == [flags |-> f, err |-> e]

\* the first lines of parse: is the first positional argument empty after
\* trimming, raw or unescaped (TRUE when there is none)
EmptyArg0(c) ==
    IF Len(c.args) > 0
    THEN \/ TrimSpace(c.args[1]) = <<>>
         \/ TrimSpace(Unescape(c.args[1])) = <<>>
    ELSE TRUE

\* parse, branch "version"
ParseVersion(c) ==
    Parsed([ZeroFlags EXCEPT !.Operation = IF c.version.val THEN OpVersion
                                                            ELSE OpHelp], Nil)

\* parse, branch "delete-all"
ParseDeleteAll(c) ==
    Parsed([ZeroFlags EXCEPT !.Operation = IF c.deleteAll.val THEN OpDeleteAll
                                                              ELSE OpHelp], Nil)

\* parse, branch "delete"
ParseDelete(c) ==
    LET indices == c.delete.val
    IN  IF Len(indices) = 0 \/ (Len(indices) = 1 /\ indices[1] = 0)
        THEN Parsed([ZeroFlags EXCEPT !.Operation = OpDelete], Nil)
        ELSE Parsed([ZeroFlags EXCEPT !.Operation = OpDelete,
                                      !.DeleteIndices = indices], Nil)

\* parse, branch "list", taking the first two of more than two values
ParseListAnyArity(c) ==
    LET listArgs == c.list.val
    IN  CASE Len(listArgs) = 0 ->
                Parsed([ZeroFlags EXCEPT !.Operation = OpList], Nil)
          [] Len(listArgs) = 1 ->
                Parsed([ZeroFlags EXCEPT !.Operation = OpList,
                                         !.ListArgs = <<listArgs[1], 0>>], Nil)
          [] OTHER ->
                Parsed([ZeroFlags EXCEPT !.Operation = OpList,
                                         !.ListArgs = <<listArgs[1], listArgs[2]>>],
                       Nil)

\* parse, branch "list"
ParseList(c) ==
    LET listArgs == c.list.val
    IN  CASE Len(listArgs) = 0 ->
                Parsed([ZeroFlags EXCEPT !.Operation = OpList], Nil)
          [] Len(listArgs) = 1 ->
                Parsed([ZeroFlags EXCEPT !.Operation = OpList,
                                         !.ListArgs = <<listArgs[1], 0>>], Nil)
          [] Len(listArgs) = 2 ->
                Parsed([ZeroFlags EXCEPT !.Operation = OpList,
                                         !.ListArgs = <<listArgs[1], listArgs[2]>>],
                       Nil)
          [] OTHER -> Parsed(ZeroFlags, ErrHelp)

\* parse, branch "paste", with the position found in the map taken as the
\* relative index
ParsePasteNoInvert(app, c) ==
    LET paste     == c.paste.val
        f0        == [ZeroFlags EXCEPT !.Operation = OpPaste, !.PasteIndex = paste]
        pipeInput == getPipeInput(c.stdin)
        unescaped == Unescape(pipeInput)
        h1        == hash(unescaped)
        h2        == hash(pipeInput)
        found1    == h1 \in DOMAIN app.index
        retry     == ~found1 /\ pipeInput # unescaped
        exists    == IF retry THEN h2 \in DOMAIN app.index ELSE found1
        idx       == IF retry THEN app.index[h2] ELSE app.index[h1]
    IN  IF pipeInput = <<>> THEN Parsed(f0, Nil)
        ELSE IF ~exists THEN Parsed(f0, Nil)
        ELSE IF paste # 0 THEN Parsed(f0, Conflicting)
        ELSE Parsed([f0 EXCEPT !.PasteIndex = idx], Nil)

\* parse, branch "paste": the lookup of the piped text in the index
ParsePaste(app, c) ==
    LET paste     == c.paste.val
        f0        == [ZeroFlags EXCEPT !.Operation = OpPaste, !.PasteIndex = paste]
        pipeInput == getPipeInput(c.stdin)
        unescaped == Unescape(pipeInput)
        h1        == hash(unescaped)
        h2        == hash(pipeInput)
        found1    == h1 \in DOMAIN app.index
        retry     == ~found1 /\ pipeInput # unescaped
        exists    == IF retry THEN h2 \in DOMAIN app.index ELSE found1
        idx       == IF retry THEN app.index[h2] ELSE app.index[h1]
    IN  IF pipeInput = <<>> THEN Parsed(f0, Nil)
        ELSE IF ~exists THEN Parsed(f0, Nil)
        ELSE IF paste # 0 THEN Parsed(f0, Conflicting)
        ELSE Parsed([f0 EXCEPT !.PasteIndex = Len(app.Items) - idx - 1], Nil)

\* parse, branch "one non-empty positional argument"
ParseText(c) ==
    Parsed([ZeroFlags EXCEPT !.Operation = OpAdd, !.Text = c.args[1],
                             !.Silent = c.silent], Nil)

\* parse, last branch: piped input is added, else the newest entry is pasted
ParseRest(c) ==
    LET pipeInput == getPipeInput(c.stdin)
    IN  IF pipeInput # <<>>
        THEN Parsed([ZeroFlags EXCEPT !.Operation = OpAdd, !.Text = pipeInput,
                                      !.Silent = c.silent], Nil)
        ELSE IF EmptyArg0(c)
        THEN Parsed([ZeroFlags EXCEPT !.Operation = OpPaste], Nil)
        ELSE Parsed(ZeroFlags, ErrHelp)

\* parse with the list flag looked at before the delete flag
parseListBeforeDelete(app, c) ==
    IF c.version.set THEN ParseVersion(c)
    ELSE IF c.deleteAll.set THEN ParseDeleteAll(c)
    ELSE IF c.list.set THEN ParseList(c)
    ELSE IF c.delete.set THEN ParseDelete(c)
    ELSE IF c.paste.set THEN ParsePaste(app, c)
    ELSE IF Len(c.args) = 1 /\ ~EmptyArg0(c) THEN ParseText(c)
    ELSE IF Len(c.args) > 1 THEN Parsed(ZeroFlags, ErrHelp)
    ELSE ParseRest(c)

\* application.parse: the priority chain of else-ifs
parse(app, c) ==
    IF c.version.set THEN ParseVersion(c)
    ELSE IF c.deleteAll.set THEN ParseDeleteAll(c)
    ELSE IF c.delete.set THEN ParseDelete(c)
    ELSE IF c.list.set THEN ParseList(c)
    ELSE IF c.paste.set THEN ParsePaste(app, c)
    ELSE IF Len(c.args) = 1 /\ ~EmptyArg0(c) THEN ParseText(c)
    ELSE IF Len(c.args) > 1 THEN Parsed(ZeroFlags, ErrHelp)
    ELSE ParseRest(c)

----------------------------------------------------------------------------
(* Inputs: the texts, indices and command lines the model draws from *)

TA    == <<"a">>
TAnl  == <<"a", NL>>
TB    == <<"b">>
TC    == <<"c">>
TBSnb == <<BS, "n", "b">>

\* texts that are not empty after trimming, raw and unescaped: "a" and "a\n"
\* share their trimmed content; TBSnb holds a literal backslash-n and
\* unescapes to "\nb"
AddTexts == {TA, TAnl, TB, TC, TBSnb}

\* texts that are empty after trimming, raw or unescaped
EmptyTexts == {<<>>, <<SP>>, <<BS, "n">>}

\* what can arrive on stdin of a paste: the texts above, the line List prints
\* for "a\n", and texts that match no entry
PasteTexts == AddTexts \cup EmptyTexts \cup {<<"a", BS, "n">>, <<"z">>, <<BS, "n", "z">>}

\* the longest history the texts can build: one entry per trimmed content
MaxHistory == Cardinality({hash(t) : t \in AddTexts})

\* the relative indices given on the command line: every index that is in
\* range for some history, and MaxHistory, which is in range for none
Idx == (-MaxHistory)..MaxHistory

\* the values of a delete flag: one to MaxDelete indices
DeleteLists == UNION {[1..n -> Idx] : n \in 1..MaxDelete}

\* the values of a list flag: pflag's IntSlice takes any number of them
ListLists == UNION {[1..n -> {0, 5}] : n \in 1..3}

Unset(v) == [set |-> FALSE, val |-> v]
Given(v) == [set |-> TRUE, val |-> v]
Tty      == [piped |-> FALSE, data |-> <<>>]
Pipe(t)  == [piped |-> TRUE, data |-> t]

\* a boolean flag: not given, given (true), or given as =false
MixedBools == {Unset(FALSE), Given(TRUE), Given(FALSE)}

\* "clip" alone: no flag changed (each flag at its default), no positional
\* argument, stdin a terminal
BareCl ==
    [version |-> Unset(FALSE), deleteAll |-> Unset(FALSE), delete |-> Unset(<<0>>),
     list |-> Unset(<<0, 0>>), paste |-> Unset(0), silent |-> FALSE,
     args |-> <<>>, stdin |-> Tty]

\* command lines that combine flags, positional arguments and piped input
MixedCls ==
    [version   : MixedBools,
     deleteAll : MixedBools,
     delete    : {Unset(<<0>>), Given(<<1>>)},
     list      : {Unset(<<0, 0>>), Given(<<0, 0>>), Given(<<0, 0, 0>>)},
     paste     : {Unset(0), Given(0), Given(1)},
     silent    : {FALSE},
     args      : {<<>>, <<TA>>, <<TA, TB>>},
     stdin     : {Tty, Pipe(TB)}]

----------------------------------------------------------------------------
(* The a, b, c scenario, followed by a history variable *)

Scenario ==
    << [ZeroFlags EXCEPT !.Operation = OpAdd, !.Text = TA],
       [ZeroFlags EXCEPT !.Operation = OpAdd, !.Text = TB],
       [ZeroFlags EXCEPT !.Operation = OpAdd, !.Text = TC],
       [ZeroFlags EXCEPT !.Operation = OpList],
       [ZeroFlags EXCEPT !.Operation = OpPaste],
       [ZeroFlags EXCEPT !.Operation = OpPaste, !.PasteIndex = -1],
       [ZeroFlags EXCEPT !.Operation = OpDelete, !.DeleteIndices = <<1>>],
       [ZeroFlags EXCEPT !.Operation = OpList] >>

ScnAt(k) == [on |-> TRUE, step |-> k]
ScnOff   == [on |-> FALSE, step |-> 0]

\* scn after an invocation that resolved to f with error e and left the
\* history newItems: one step further when f is the scenario's next
\* operation, at the start whenever the history is empty, else off
ScnNext(s, f, e, newItems) ==
    IF /\ s.on
       /\ s.step < Len(Scenario)
       /\ e = Nil
       /\ [f EXCEPT !.Silent = FALSE] = Scenario[s.step + 1]
    THEN ScnAt(s.step + 1)
    ELSE IF newItems = <<>> THEN ScnAt(0) ELSE ScnOff

----------------------------------------------------------------------------
(* One invocation: main *)

\* main: parse, then handle unless parse failed
Run(app, c) ==
    LET p == parse(app, c)
    IN  IF p.err # Nil THEN Outcome(app, <<>>, p.err) ELSE handle(app, p.flags)

\* the steps of main, named
Load    == "load"
Parse   == "parse"
Handle  == "handle"
Usage   == "usage"
Save    == "save"
Exit    == "exit"
Crash   == "crash"

\* the steps of main if os.Exit after a handle error ran the deferred close
\* as well
MainStepsDeferredOnExit(perr, herr) ==
    IF perr # Nil THEN <<Parse, Usage, Exit>>
    ELSE IF herr = Nil THEN <<Parse, Handle, Save, Exit>>
    ELSE IF herr = Panic THEN <<Parse, Handle, Save, Crash>>
    ELSE <<Parse, Handle, Usage, Save, Save, Exit>>

\* the steps main takes after NewApplication, given the error of parse and
\* the error of handle.  A parse error prints the usage and exits before the
\* close is deferred; a handle error prints the usage, calls close and exits
\* (os.Exit runs no deferred call); a panic in handle runs the deferred close
\* and then ends the process; a return from main runs the deferred close.
MainSteps(perr, herr) ==
    IF perr # Nil THEN <<Parse, Usage, Exit>>
    ELSE IF herr = Nil THEN <<Parse, Handle, Save, Exit>>
    ELSE IF herr = Panic THEN <<Parse, Handle, Save, Crash>>
    ELSE <<Parse, Handle, Usage, Save, Exit>>

\* does a sequence of steps hold the step e
Took(steps, e) == \E i \in DOMAIN steps : steps[i] = e

\* application.Close: the whole document is overwritten with the history
Close(app) == app.Items

\* main after NewApplication: one invocation with command line c, up to the
\* point where the process is about to exit.  p is what parse returned, r
\* the outcome of the run, steps the path main took; each is bound once.
Main(c) ==
    \E p \in {parse(App(Items, index), c)}, r \in {Run(App(Items, index), c)} :
    \E steps \in {MainSteps(p.err, r.err)} :
        /\ pc' = "done"
        /\ log' = log \o steps
        /\ file' = IF Took(steps, Save) THEN Close(r.app) ELSE file
        /\ Items' = r.app.Items
        /\ index' = r.app.index
        /\ cl'    = c
        /\ flags' = p.flags
        /\ out'   = r.out
        /\ err'   = r.err
        /\ pre'   = App(Items, index)
        /\ scn'   = ScnNext(scn, p.flags, r.err, r.app.Items)
        /\ UNCHANGED <<rIdx, rLen, rRes, disk, procs, last>>

\* clip -v
CmdVersion ==
    /\ pc = "ready"
    /\ \E v \in BOOLEAN : Main([BareCl EXCEPT !.version = Given(v)])

\* clip -D
CmdDeleteAll ==
    /\ pc = "ready"
    /\ \E v \in BOOLEAN : Main([BareCl EXCEPT !.deleteAll = Given(v)])

\* clip -d, clip -d=i,j,...
CmdDelete ==
    /\ pc = "ready"
    /\ \E d \in DeleteLists : Main([BareCl EXCEPT !.delete = Given(d)])

\* clip -l, clip -l=n, clip -l=m,n
CmdList ==
    /\ pc = "ready"
    /\ \E l \in ListLists : Main([BareCl EXCEPT !.list = Given(l)])

\* clip -p, clip -p=i, ... | clip -p
CmdPaste ==
    /\ pc = "ready"
    /\ \E i \in Idx, s \in {Tty} \cup {Pipe(t) : t \in PasteTexts} :
          Main([BareCl EXCEPT !.paste = Given(i), !.stdin = s])

\* clip text, clip -s text, clip text text
CmdText ==
    /\ pc = "ready"
    /\ \E t \in AddTexts, more \in {<<>>, <<TB>>}, sil \in BOOLEAN :
          Main([BareCl EXCEPT !.args = <<t>> \o more, !.silent = sil])

\* clip, ... | clip, clip "" : no flag and no non-empty positional argument
CmdRest ==
    /\ pc = "ready"
    /\ \E a \in {<<>>} \cup {<<t>> : t \in EmptyTexts},
          s \in {Tty} \cup {Pipe(t) : t \in AddTexts \cup EmptyTexts},
          sil \in BOOLEAN :
          Main([BareCl EXCEPT !.args = a, !.stdin = s, !.silent = sil])

\* flags, positional arguments and piped input together, such as
\* clip --version=false -D, clip -d=1 -l, clip -D a b, echo b | clip -l a
CmdMixed ==
    /\ pc = "ready"
    /\ \E c \in MixedCls : Main(c)

\* NewApplication of the next invocation: the process has exited, and the
\* next one decodes the document the last one held and rebuilds the map
NewApplication ==
    LET app == Reindex(App(file, EmptyIndex))
    IN  /\ pc = "done"
        /\ pc' = "ready"
        /\ log' = <<Load>>
        /\ file' = file
        /\ Items' = app.Items
        /\ index' = app.index
        /\ cl'    = BareCl
        /\ flags' = ZeroFlags
        /\ out'   = <<>>
        /\ err'   = Nil
        /\ pre'   = app
        /\ UNCHANGED <<scn, rIdx, rLen, rRes, disk, procs, last>>

\* the two invocations of the race study
Procs == {1, 2}

\* one invocation of the race study: where it is in main ("start", "loaded",
\* "ran", "opened", "exit"), its application, and whether it has written
ProcAt(at, app, wrote) == [pc |-> at, app |-> app, wrote |-> wrote]

\* the state after construction: an empty history (no data file yet)
Init ==
    /\ Items = <<>>
    /\ index = EmptyIndex
    /\ cl    = BareCl
    /\ flags = ZeroFlags
    /\ out   = <<>>
    /\ err   = Nil
    /\ pre   = App(<<>>, EmptyIndex)
    /\ pc    = "ready"
    /\ file  = <<>>
    /\ log   = <<Load>>
    /\ scn   = ScnAt(0)
    /\ rIdx  = 0
    /\ rLen  = 0
    /\ rRes  = resolveIdx(0, 0)
    /\ disk  = <<>>
    /\ procs = [i \in Procs |-> ProcAt("start", App(<<>>, EmptyIndex), FALSE)]
    /\ last  = 0

Next ==
    \/ CmdVersion
    \/ CmdDeleteAll
    \/ CmdDelete
    \/ CmdList
    \/ CmdPaste
    \/ CmdText
    \/ CmdRest
    \/ CmdMixed
    \/ NewApplication

\* a sequence of invocations on one data file
Spec == Init /\ [][Next]_vars

----------------------------------------------------------------------------
(* The resolver on its own: every machine integer against every length *)

InitResolve ==
    /\ Items = <<>>
    /\ index = EmptyIndex
    /\ cl    = BareCl
    /\ flags = ZeroFlags
    /\ out   = <<>>
    /\ err   = Nil
    /\ pre   = App(<<>>, EmptyIndex)
    /\ pc    = "ready"
    /\ file  = <<>>
    /\ log   = <<Load>>
    /\ scn   = ScnAt(0)
    /\ rIdx \in IntMin..IntMax
    /\ rLen \in 0..MaxLen
    /\ rRes = resolveIdx(rIdx, rLen)
    /\ disk  = <<>>
    /\ procs = [i \in Procs |-> ProcAt("start", App(<<>>, EmptyIndex), FALSE)]
    /\ last  = 0

Resolve ==
    \E i \in IntMin..IntMax, n \in 0..MaxLen :
        /\ rIdx' = i
        /\ rLen' = n
        /\ rRes' = resolveIdx(i, n)
        /\ UNCHANGED <<Items, index, cl, flags, out, err, pre, pc, file, log, scn,
                       disk, procs, last>>

SpecResolve == InitResolve /\ [][Resolve]_vars

----------------------------------------------------------------------------
(* Two invocations on one data file, without locking *)

\* the delimiters of the document; the encoder escapes them inside strings,
\* so no data and no hash holds one
DocOpen   == "{"
DocClose  == "}"
ItemOpen  == "<"
ItemSep   == "#"
ItemClose == ">"

Malformed == "Malformed"

\* the characters of the entries of a document: data and hash of each
RECURSIVE EncodeItems(_)
EncodeItems(items) ==
    IF items = <<>> THEN <<>>
    ELSE <<ItemOpen>> \o Head(items).Data \o <<ItemSep>> \o Head(items).Hash
             \o <<ItemClose>> \o EncodeItems(Tail(items))

\* json.NewEncoder(file).Encode(app): the characters of the whole document
Encode(items) == <<DocOpen>> \o EncodeItems(items) \o <<DocClose>>

\* the first place of the character t in d, 0 when there is none
First(d, t) ==
    IF \E i \in DOMAIN d : d[i] = t
    THEN CHOOSE i \in DOMAIN d : d[i] = t /\ \A j \in 1..(i - 1) : d[j] # t
    ELSE 0

\* the entries between the delimiters of a document
RECURSIVE DecodeItems(_)
DecodeItems(body) ==
    IF body = <<>> THEN <<>>
    ELSE LET h == First(body, ItemSep)
             e == First(body, ItemClose)
         IN  <<NewItem(SubSeq(body, 2, h - 1), SubSeq(body, h + 1, e - 1))>>
                 \o DecodeItems(SubSeq(body, e + 1, Len(body)))

Decoded(items, e) == [Items |-> items, err |-> e]

\* json.NewDecoder(file).Decode(&app): an empty file is EOF, which
\* NewApplication accepts; otherwise the first document is read up to its
\* closing delimiter and nothing after it is looked at
Decode(d) ==
    IF d = <<>> THEN Decoded(<<>>, Nil)
    ELSE IF d[1] # DocOpen \/ First(d, DocClose) = 0 THEN Decoded(<<>>, Malformed)
    ELSE Decoded(DecodeItems(SubSeq(d, 2, First(d, DocClose) - 1)), Nil)

\* a write of doc that goes to the end of the file, as with O_APPEND
WriteAppended(d, doc) == d \o doc

\* a write of doc through a descriptor opened with O_TRUNC: it starts at
\* offset 0 whatever the file holds by then, and leaves what lies beyond
WriteAt0(d, doc) == doc \o SubSeq(d, Len(doc) + 1, Len(d))

\* the history after adding the texts in order to app
RECURSIVE AddAll(_, _)
AddAll(app, texts) ==
    IF texts = <<>> THEN app ELSE AddAll(Add(app, Head(texts)), Tail(texts))

\* the histories the data file holds when the two invocations start
RaceHistories ==
    {AddAll(App(<<>>, EmptyIndex), ts).Items :
        ts \in {<<>>, <<TA>>, <<TA, TB>>, <<TB, TAnl, TBSnb>>, <<TA, TB, TC, TBSnb>>}}

\* the command lines of the two invocations: add, add of a longer text,
\* delete, delete all, paste by index, a usage error, a bounded list
RaceCls ==
    {[BareCl EXCEPT !.args = <<TC>>],
     [BareCl EXCEPT !.args = <<TBSnb>>],
     [BareCl EXCEPT !.delete = Given(<<0>>)],
     [BareCl EXCEPT !.deleteAll = Given(TRUE)],
     [BareCl EXCEPT !.paste = Given(1)],
     [BareCl EXCEPT !.args = <<TA, TB>>],
     [BareCl EXCEPT !.list = Given(<<5>>)]}

\* the variables of the single invocation and of the resolver study
oneVars ==
    <<Items, index, cl, flags, out, err, pre, pc, file, log, scn, rIdx, rLen, rRes>>

InitRace ==
    /\ Items = <<>>
    /\ index = EmptyIndex
    /\ cl    = BareCl
    /\ flags = ZeroFlags
    /\ out   = <<>>
    /\ err   = Nil
    /\ pc    = "ready"
    /\ file  = <<>>
    /\ log   = <<Load>>
    /\ scn   = ScnAt(0)
    /\ rIdx  = 0
    /\ rLen  = 0
    /\ rRes  = resolveIdx(0, 0)
    /\ \E h \in RaceHistories :
           /\ pre = Reindex(App(h, EmptyIndex))
           /\ disk \in {Encode(h)} \cup (IF h = <<>> THEN {<<>>} ELSE {})
    /\ procs = [i \in Procs |-> ProcAt("start", App(<<>>, EmptyIndex), FALSE)]
    /\ last  = 0

\* NewApplication of invocation i: the file is opened and decoded, the map
\* rebuilt; a document that does not decode ends the process
RaceLoad(i) ==
    /\ procs[i].pc = "start"
    /\ \E d \in {Decode(disk)} :
           procs' = [procs EXCEPT ![i] =
                        IF d.err # Nil
                        THEN ProcAt("exit", App(<<>>, EmptyIndex), FALSE)
                        ELSE ProcAt("loaded",
                                    Reindex(App(d.Items, EmptyIndex)), FALSE)]
    /\ UNCHANGED <<disk, last, oneVars>>

\* parse and handle of invocation i, in memory; it goes on to Close unless
\* main exits without it
RaceRun(i) ==
    /\ procs[i].pc = "loaded"
    /\ \E c \in RaceCls :
       \E p \in {parse(procs[i].app, c)}, r \in {Run(procs[i].app, c)} :
           procs' = [procs EXCEPT ![i] =
                        ProcAt(IF Took(MainSteps(p.err, r.err), Save)
                               THEN "ran" ELSE "exit", r.app, FALSE)]
    /\ UNCHANGED <<disk, last, oneVars>>

\* application.Close of invocation i, OpenFile with O_TRUNC: the file is
\* emptied
RaceOpen(i) ==
    /\ procs[i].pc = "ran"
    /\ disk' = <<>>
    /\ procs' = [procs EXCEPT ![i].pc = "opened"]
    /\ UNCHANGED <<last, oneVars>>

\* application.Close of invocation i, Encode: the document is written at
\* the start of the file
RaceWrite(i) ==
    /\ procs[i].pc = "opened"
    /\ disk' = WriteAt0(disk, Encode(procs[i].app.Items))
    /\ procs' = [procs EXCEPT ![i].pc = "exit", ![i].wrote = TRUE]
    /\ last' = i
    /\ UNCHANGED oneVars

NextRace ==
    \E i \in Procs : RaceLoad(i) \/ RaceRun(i) \/ RaceOpen(i) \/ RaceWrite(i)

\* two invocations started on one data file, their steps interleaved
SpecRace == InitRace /\ [][NextRace]_vars

----------------------------------------------------------------------------
(* Vocabulary of the properties *)

\* the invocation has run and ended without error
Done   == pc = "done"
DoneOk == pc = "done" /\ err = Nil

\* the data of a history, oldest first
Datas(items) == [i \in DOMAIN items |-> items[i].Data]

\* does some entry hold the trimmed content of s
Holds(items, s) == \E i \in DOMAIN items : TrimSpace(items[i].Data) = TrimSpace(s)

\* the entries whose trimmed content is not that of s, in order
Others(items, s) == SelectSeq(items, LAMBDA e : TrimSpace(e.Data) # TrimSpace(s))

\* the position a relative index designates in a history of length n
Designated(i, n) == IF i >= 0 THEN n - i - 1 ELSE (-i) - 1

\* is the relative index in range for length n
Valid(i, n) == i >= -n /\ i <= n - 1

\* items without the entries at the (0-based) positions of the set gone
Except(items, gone) ==
    LET keep == {p \in 0..(Len(items) - 1) : p \notin gone}
        nth(j) == CHOOSE p \in keep : Cardinality({q \in keep : q < p}) = j - 1
    IN  [j \in 1..Cardinality(keep) |-> items[nth(j) + 1]]

----------------------------------------------------------------------------
(* Properties of the store and of the executor, under Spec *)

\* C1: Add(s) of a text whose trimmed content some entry already holds
\* leaves the length unchanged, makes the entry with that content the newest
\* and keeps the order of all other entries.
AddPromotesHeldContent ==
    (DoneOk /\ flags.Operation = OpAdd /\ Holds(pre.Items, flags.Text)) =>
        /\ Len(Items) = Len(pre.Items)
        /\ TrimSpace(Items[Len(Items)].Data) = TrimSpace(flags.Text)
        /\ Others(Items, flags.Text) = Others(pre.Items, flags.Text)

\* C1 witness: the example of the claim, Add(a) on the history [a, b] gives
\* [b, a].
AddPromotesWitness ==
    /\ DoneOk /\ flags.Operation = OpAdd /\ flags.Text = TA
    /\ Datas(pre.Items) = <<TA, TB>>
    /\ Datas(Items) = <<TB, TA>>

\* C2 (as claimed): after Add(s) of a non-empty trimmed s, Paste with
\* relative index 0 outputs exactly s.  The paste is the next invocation,
\* "clip -p=0", run on the application the Add left behind.
AddThenPasteYieldsText ==
    (DoneOk /\ flags.Operation = OpAdd /\ flags.Text = TrimSpace(flags.Text)) =>
        Run(Reindex(App(Items, EmptyIndex)),
            [BareCl EXCEPT !.paste = Given(0)]).out = <<flags.Text>>

\* C3: no two entries of the history share a content hash.
NoTwoEntriesShareHash ==
    \A i, j \in DOMAIN Items : i # j => Items[i].Hash # Items[j].Hash

\* C3 witness: a paste has promoted an entry of a full history, by Remove
\* and Add.
NoTwoEntriesWitness ==
    /\ DoneOk /\ flags.Operation = OpPaste
    /\ Len(Items) = MaxHistory
    /\ Items # pre.Items

\* the map of app is the recomputation from its sequence: every entry's hash
\* maps to the entry's position and the map has no other key
Derived(app) ==
    /\ DOMAIN app.index = {app.Items[i].Hash : i \in DOMAIN app.Items}
    /\ \A i \in DOMAIN app.Items : app.index[app.Items[i].Hash] = i - 1

\* C4: the map equals its recomputation from the sequence after every
\* invocation (Add, Paste, Delete, DeleteAll), and after each single store
\* operation, Add, Remove or Clear, applied to a constructed application.
IndexIsDerived ==
    LET app == App(Items, index)
    IN  /\ Derived(app)
        /\ pc = "ready" =>
               /\ \A t \in AddTexts : Derived(Add(app, t))
               /\ \A p \in Idx : Derived(Remove(app, p))
               /\ Derived(Clear(app))

\* C4 witness: a delete has removed two entries, neither the newest, from a
\* full history, so later positions have shifted.
IndexIsDerivedWitness ==
    /\ DoneOk /\ flags.Operation = OpDelete
    /\ Len(pre.Items) = MaxHistory
    /\ Len(Items) = MaxHistory - 2
    /\ Items[Len(Items)] = pre.Items[MaxHistory]

\* C7: a delete whose indices are all in range and designate pairwise
\* different entries removes exactly the entries they designated in the
\* history as it was, whatever the order of the list, and the others keep
\* their order.
DeleteRemovesDesignated ==
    LET req == DeleteRequest(flags)
        n   == Len(pre.Items)
    IN  (/\ Done /\ flags.Operation = OpDelete
         /\ \A k \in DOMAIN req : Valid(req[k], n)
         /\ \A k, l \in DOMAIN req :
                k # l => Designated(req[k], n) # Designated(req[l], n)) =>
            /\ err = Nil
            /\ Items = Except(pre.Items,
                              {Designated(req[k], n) : k \in DOMAIN req})

\* C7 witness: the example of the specification, delete=2,0,3 on four
\* entries leaves the entry at relative index 1.
DeleteRemovesWitness ==
    /\ DoneOk /\ flags.Operation = OpDelete
    /\ flags.DeleteIndices = <<2, 0, 3>>
    /\ Len(pre.Items) = 4
    /\ Items = <<pre.Items[3]>>

\* C8: a delete with an index that does not resolve ends with an error and
\* leaves the sequence and the map exactly as they were.
DeleteAbortsWhole ==
    LET req == DeleteRequest(flags)
        n   == Len(pre.Items)
    IN  (/\ Done /\ flags.Operation = OpDelete
         /\ \E k \in DOMAIN req : ~Valid(req[k], n)) =>
            /\ err = OutOfBounds
            /\ Items = pre.Items
            /\ index = pre.index

\* C8 witness: the first index of the request is valid, a later one is not,
\* and the history is not empty.
DeleteAbortsWitness ==
    LET req == DeleteRequest(flags)
        n   == Len(pre.Items)
    IN  /\ Done /\ flags.Operation = OpDelete
        /\ n >= 2
        /\ Len(req) >= 2
        /\ Valid(req[1], n)
        /\ ~Valid(req[Len(req)], n)
        /\ err = OutOfBounds

\* C9 (as claimed): in the scenario Add(a), Add(b), Add(c), List, Paste(0),
\* Paste(-1), Delete(1), List the first List prints c, b, a, the pastes
\* output c and a, and the last List prints c, a.
ScenarioAsClaimed ==
    (Done /\ scn.on) =>
        /\ scn.step = 4 => out = <<TC, TB, TA>>
        /\ scn.step = 5 => out = <<TC>>
        /\ scn.step = 6 => out = <<TA>>
        /\ scn.step = 8 => out = <<TC, TA>>

\* C9 (amended): as above, but the last List prints a, b: Paste(-1) has
\* promoted a to newest, so Delete(1) removes c.
ScenarioAsRun ==
    (Done /\ scn.on) =>
        /\ scn.step = 4 => out = <<TC, TB, TA>>
        /\ scn.step = 5 => out = <<TC>>
        /\ scn.step = 6 => out = <<TA>>
        /\ scn.step = 8 => out = <<TA, TB>>

\* C9 witness: the scenario has run to its last List.
ScenarioWitness == Done /\ scn.on /\ scn.step = Len(Scenario)

\* C10 (as claimed): with the paste flag and non-empty piped text that
\* matches no entry, raw or unescaped, the interpreter resolves to Help
\* without error, nothing is output and the history is as it was.
UnmatchedPipePasteIsNoOp ==
    LET piped == getPipeInput(cl.stdin)
    IN  (/\ Done /\ cl.paste.set
         /\ ~cl.version.set /\ ~cl.deleteAll.set /\ ~cl.delete.set /\ ~cl.list.set
         /\ piped # <<>>
         /\ ~Holds(pre.Items, piped)
         /\ ~Holds(pre.Items, Unescape(piped))) =>
            /\ flags.Operation = OpHelp
            /\ err = Nil
            /\ out = <<>>
            /\ Items = pre.Items

\* the invocation was decided by the paste flag: it is set and no flag of
\* higher priority is
PasteDecides ==
    /\ cl.paste.set
    /\ ~cl.version.set /\ ~cl.deleteAll.set /\ ~cl.delete.set /\ ~cl.list.set

\* C11 (as claimed): with the paste flag, non-empty piped input and an
\* explicit non-zero paste index, the interpreter reports the usage error
\* ConflictingArguments and no operation is executed, whether or not the
\* piped text matches an entry.
PipeWithPasteIndexIsConflict ==
    (/\ Done /\ PasteDecides
     /\ getPipeInput(cl.stdin) # <<>>
     /\ cl.paste.val # 0) =>
        /\ err = Conflicting
        /\ ~Took(log, Handle)
        /\ out = <<>>
        /\ Items = pre.Items

\* no flag that selects an operation is set
NoFlag ==
    /\ ~cl.version.set /\ ~cl.deleteAll.set /\ ~cl.delete.set
    /\ ~cl.list.set /\ ~cl.paste.set

\* the command line has exactly one positional argument, and it is not
\* empty after trimming
OneText == Len(cl.args) = 1 /\ ~EmptyArg0(cl)

\* does the piped text match an entry, unescaped or raw
PipeMatches ==
    LET piped == getPipeInput(cl.stdin)
    IN  \E i \in DOMAIN pre.Items :
            pre.Items[i].Hash \in {hash(piped), hash(Unescape(piped))}

\* C12 (as claimed): every command line resolves to exactly one operation,
\* the one of the first input present in the order version, delete-all,
\* delete, list, paste, one positional argument (Add), piped input (Add),
\* and with none of them Paste of relative index 0; lower-priority inputs
\* never change it.
PriorityAlwaysResolves ==
    Done =>
        /\ Took(log, Handle)
        /\ flags.Operation =
               IF cl.version.set THEN OpVersion
               ELSE IF cl.deleteAll.set THEN OpDeleteAll
               ELSE IF cl.delete.set THEN OpDelete
               ELSE IF cl.list.set THEN OpList
               ELSE IF cl.paste.set THEN OpPaste
               ELSE IF Len(cl.args) = 1 THEN OpAdd
               ELSE IF getPipeInput(cl.stdin) # <<>> THEN OpAdd
               ELSE OpPaste

\* the command lines the interpreter rejects: the list flag decides and
\* has more than two values; the paste flag decides, has a non-zero index
\* and the piped text matches an entry; no flag is set and there is more
\* than one positional argument
Rejected ==
    IF cl.version.set \/ cl.deleteAll.set \/ cl.delete.set THEN FALSE
    ELSE IF cl.list.set THEN Len(cl.list.val) > 2
    ELSE IF cl.paste.set
    THEN getPipeInput(cl.stdin) # <<>> /\ cl.paste.val # 0 /\ PipeMatches
    ELSE Len(cl.args) > 1

\* the operation of the first input present, in the order of priority; a
\* boolean flag given as =false selects Help, and a positional argument
\* that is empty after trimming counts as absent
PriorityOperation ==
    IF cl.version.set THEN (IF cl.version.val THEN OpVersion ELSE OpHelp)
    ELSE IF cl.deleteAll.set THEN (IF cl.deleteAll.val THEN OpDeleteAll ELSE OpHelp)
    ELSE IF cl.delete.set THEN OpDelete
    ELSE IF cl.list.set THEN OpList
    ELSE IF cl.paste.set THEN OpPaste
    ELSE IF OneText THEN OpAdd
    ELSE IF getPipeInput(cl.stdin) # <<>> THEN OpAdd
    ELSE OpPaste

\* C12 (amended): every command line the interpreter does not reject
\* resolves to exactly one operation, the one of the first input present in
\* the order version, delete-all, delete, list, paste, one non-empty
\* positional argument (Add of it), piped input (Add of it), and with none
\* of them Paste of relative index 0, the same as the paste flag alone;
\* version and delete-all given as =false resolve to Help; lower-priority
\* inputs never change the operation; a rejected command line runs nothing.
PriorityDecides ==
    Done =>
        /\ Rejected <=> err \in {ErrHelp, Conflicting}
        /\ Rejected <=> ~Took(log, Handle)
        /\ ~Rejected =>
               /\ flags.Operation = PriorityOperation
               /\ (NoFlag /\ OneText) => flags.Text = cl.args[1]
               /\ (NoFlag /\ ~OneText /\ flags.Operation = OpAdd) =>
                      flags.Text = getPipeInput(cl.stdin)
        /\ (NoFlag /\ Len(cl.args) = 0 /\ getPipeInput(cl.stdin) = <<>>) =>
               /\ flags = [ZeroFlags EXCEPT !.Operation = OpPaste]
               /\ flags = parse(pre, [BareCl EXCEPT !.paste = Given(0)]).flags
               /\ pre.Items # <<>> =>
                      /\ out = <<pre.Items[Len(pre.Items)].Data>>
                      /\ Items = pre.Items

\* C12 witness: the delete flag has decided against a list flag, a paste
\* flag, two positional arguments and piped input, and removed an entry.
PriorityWitness ==
    /\ DoneOk /\ flags.Operation = OpDelete
    /\ ~cl.version.set /\ ~cl.deleteAll.set
    /\ cl.list.set /\ cl.paste.set /\ Len(cl.args) = 2
    /\ getPipeInput(cl.stdin) # <<>>
    /\ Len(Items) = Len(pre.Items) - 1

\* the invocation ended as a usage error: an error from the interpreter,
\* the usage printed, no operation executed, nothing output, a non-zero
\* exit, and the history and the data file as they were
UsageError ==
    /\ err = ErrHelp
    /\ log = <<Load, Parse, Usage, Exit>>
    /\ out = <<>>
    /\ Items = pre.Items
    /\ index = pre.index
    /\ file = pre.Items

Unimplemented == "Unimplemented"

\* C14 (as claimed): a List whose range pair is not (0, 0) does not crash:
\* on a history that is not empty it ends with the signaled error
\* Unimplemented, and it leaves the sequence and the map as they were.
BoundedListIsSignaled ==
    (/\ Done /\ Took(log, Handle)
     /\ flags.Operation = OpList /\ flags.ListArgs # <<0, 0>>) =>
        /\ ~Took(log, Crash)
        /\ err # Panic
        /\ pre.Items # <<>> => err = Unimplemented
        /\ Items = pre.Items
        /\ index = pre.index

\* C15: deleting relative index 0 from a history of exactly one entry
\* leaves a sequence of length 0 and a map with no keys.
DeleteOfOnlyEntryEmptiesStore ==
    (/\ Done /\ Took(log, Handle) /\ flags.Operation = OpDelete
     /\ DeleteRequest(flags) = <<0>>
     /\ Len(pre.Items) = 1) =>
        /\ err = Nil
        /\ Len(Items) = 0
        /\ DOMAIN index = {}
        /\ file = <<>>

\* C15 witness: clip -d on a history of one entry, whose hash was a key of
\* the map.
DeleteOfOnlyEntryWitness ==
    /\ DoneOk /\ flags.Operation = OpDelete
    /\ DeleteRequest(flags) = <<0>>
    /\ Len(pre.Items) = 1
    /\ DOMAIN pre.index = {pre.Items[1].Hash}
    /\ Items = <<>>

\* C16: on a history that is not empty, Paste of an in-range relative index
\* i outputs the data of the entry at the position i designates; afterwards
\* the history has the same length and the same entries, that entry is the
\* newest and the others keep their order; the history is unchanged when
\* the entry was the newest already.
PastePromotesDesignated ==
    LET n == Len(pre.Items)
        i == flags.PasteIndex
        p == Designated(i, n)
    IN  (/\ Done /\ Took(log, Handle) /\ flags.Operation = OpPaste
         /\ n > 0 /\ Valid(i, n)) =>
            /\ err = Nil
            /\ out = <<pre.Items[p + 1].Data>>
            /\ Len(Items) = n
            /\ {Items[k] : k \in DOMAIN Items}
                   = {pre.Items[k] : k \in DOMAIN pre.Items}
            /\ Items[n] = pre.Items[p + 1]
            /\ SubSeq(Items, 1, n - 1) = Except(pre.Items, {p})
            /\ p = n - 1 => (Items = pre.Items /\ index = pre.index)
            /\ Derived(App(Items, index))

\* C16 witness: a paste by a negative index has promoted the oldest entry
\* of a full history.
PastePromotesWitness ==
    /\ DoneOk /\ flags.Operation = OpPaste
    /\ cl.stdin = Tty
    /\ flags.PasteIndex = -1
    /\ Len(pre.Items) = MaxHistory
    /\ Items = Tail(pre.Items) \o <<pre.Items[1]>>
    /\ out = <<pre.Items[1].Data>>

\* the positions (0-based) of the entries of the history as it was whose
\* trimmed content is that of s
PositionsOf(s) ==
    {p \in 0..(Len(pre.Items) - 1) : pre.Items[p + 1].Hash = hash(s)}

\* the paste at position p of the history as it was has happened: the
\* interpreter substituted the relative index of p, the entry was output
\* and is the newest, the others keep their order
PastedFrom(p) ==
    LET n == Len(pre.Items)
    IN  /\ err = Nil
        /\ flags.Operation = OpPaste
        /\ flags.PasteIndex = n - p - 1
        /\ resolveIdx(flags.PasteIndex, n) = Resolved(p, Nil)
        /\ out = <<pre.Items[p + 1].Data>>
        /\ Items = Except(pre.Items, {p}) \o <<pre.Items[p + 1]>>

\* C17 (as claimed): with the paste flag, no explicit index and piped text
\* that matches, raw or with \n unescaped, the entry at position p, the
\* substituted relative index is length - p - 1 and the Paste outputs and
\* promotes exactly that entry.
PipedMatchIsPasted ==
    LET piped == getPipeInput(cl.stdin)
    IN  (Done /\ PasteDecides /\ cl.paste.val = 0 /\ piped # <<>>) =>
            \A p \in PositionsOf(piped) \cup PositionsOf(Unescape(piped)) :
                PastedFrom(p)

\* C17 (amended): as above, where the unescaped text is looked up first and
\* the raw text only when the unescaped text matches no entry.
PipedMatchIsPastedUnescapedFirst ==
    LET piped == getPipeInput(cl.stdin)
        first == PositionsOf(Unescape(piped))
        match == IF first # {} THEN first ELSE PositionsOf(piped)
    IN  (Done /\ PasteDecides /\ cl.paste.val = 0 /\ piped # <<>>) =>
            /\ Cardinality(match) <= 1
            /\ \A p \in match : PastedFrom(p)

\* C17 witness: the line List printed for the entry "a\n" was piped back,
\* matched after unescaping an entry that was not the newest, and that
\* entry was output and promoted.
PipedMatchWitness ==
    /\ DoneOk /\ PasteDecides /\ cl.paste.val = 0
    /\ cl.stdin = Pipe(Escape(TAnl))
    /\ Len(pre.Items) = MaxHistory
    /\ pre.Items[2].Data = TAnl
    /\ flags.PasteIndex = MaxHistory - 2
    /\ out = <<TAnl>>
    /\ Items[MaxHistory].Data = TAnl

\* C18 (as claimed): the stored data of every entry is whitespace-trimmed
\* and its hash is the digest of that stored data; after Add(text) the data
\* of the newest entry is text with its surrounding whitespace removed.
StoredDataIsTrimmed ==
    /\ \A i \in DOMAIN Items :
           /\ Items[i].Data = TrimSpace(Items[i].Data)
           /\ Items[i].Hash = Sha1(Items[i].Data)
    /\ (DoneOk /\ flags.Operation = OpAdd) =>
           Items[Len(Items)].Data = TrimSpace(flags.Text)

\* C19: Paste on an empty history succeeds with no output and no error for
\* every paste index and leaves the history empty; on a history that is not
\* empty a paste index out of range is an error that leaves the history
\* unchanged.
PasteOnEmptyOrOutOfRange ==
    LET n == Len(pre.Items)
    IN  (Done /\ Took(log, Handle) /\ flags.Operation = OpPaste) =>
            /\ n = 0 =>
                   /\ err = Nil
                   /\ out = <<>>
                   /\ Items = <<>> /\ DOMAIN index = {}
                   /\ file = <<>>
            /\ (n > 0 /\ ~Valid(flags.PasteIndex, n)) =>
                   /\ err = OutOfBounds
                   /\ out = <<>>
                   /\ Items = pre.Items /\ index = pre.index
                   /\ file = pre.Items

\* C19 witness: a paste index that is in range for no history, on the
\* empty history, ended without output and without error.
PasteOnEmptyWitness ==
    /\ DoneOk /\ flags.Operation = OpPaste
    /\ pre.Items = <<>>
    /\ flags.PasteIndex = MaxHistory
    /\ out = <<>> /\ Items = <<>>

\* how often the step e was taken, and the places where it was
Count(steps, e) == Cardinality({i \in DOMAIN steps : steps[i] = e})
Places(steps, e) == {i \in DOMAIN steps : steps[i] = e}

\* every e was taken before every f
Before(steps, e, f) ==
    \A i \in Places(steps, e), j \in Places(steps, f) : i < j

\* C20 (as claimed): on every path of an invocation the history is loaded
\* exactly once, before the command is interpreted, and saved exactly once,
\* after the operation and before the process ends.
LoadedOnceSavedOnce ==
    Done =>
        /\ Count(log, Load) = 1
        /\ Before(log, Load, Parse)
        /\ Count(log, Save) = 1
        /\ Before(log, Parse, Save)
        /\ Before(log, Handle, Save)
        /\ Before(log, Save, Exit)
        /\ Before(log, Save, Crash)

\* C20 (amended): on every path the history is loaded exactly once, before
\* the command is interpreted.  When the interpreter rejects the command
\* line the process exits without saving, and the data file stays as it was
\* loaded; on every other path (success, operation error, unimplemented
\* list) the history is saved exactly once, after the operation and before
\* the process ends, and the data file holds the history of the process.
LoadedOnceSavedUnlessRejected ==
    Done =>
        /\ Count(log, Load) = 1
        /\ Before(log, Load, Parse)
        /\ Count(log, Parse) = 1
        /\ Count(log, Exit) + Count(log, Crash) = 1
        /\ log[Len(log)] \in {Exit, Crash}
        /\ Rejected <=> ~Took(log, Handle)
        /\ ~Took(log, Handle) =>
               /\ Count(log, Save) = 0
               /\ file = pre.Items
               /\ Items = pre.Items
        /\ Took(log, Handle) =>
               /\ Count(log, Handle) = 1
               /\ Count(log, Save) = 1
               /\ Before(log, Handle, Save)
               /\ Before(log, Save, Exit)
               /\ Before(log, Save, Crash)
               /\ file = Items
        /\ Took(log, Crash) <=> err = Panic

\* C20 witness: an operation error (a paste index out of range) on a
\* history that is not empty: the usage is printed, the history saved once,
\* and the process exits.
LoadedOnceSavedOnceWitness ==
    /\ Done /\ flags.Operation = OpPaste /\ err = OutOfBounds
    /\ pre.Items # <<>>
    /\ log = <<Load, Parse, Handle, Usage, Save, Exit>>
    /\ file = pre.Items

\* C22 (as claimed): every index of a delete is resolved against the
\* history as it was, so when all indices are in range, two of them
\* designating the same entry included, the delete removes exactly the
\* designated entries, each once: the length decreases by the number of
\* distinct designated entries and no other entry is removed.
DeleteRemovesEachDesignatedOnce ==
    LET req  == DeleteRequest(flags)
        n    == Len(pre.Items)
        gone == {Designated(req[k], n) : k \in DOMAIN req}
    IN  (/\ Done /\ Took(log, Handle) /\ flags.Operation = OpDelete
         /\ \A k \in DOMAIN req : Valid(req[k], n)) =>
            /\ err = Nil
            /\ Len(Items) = n - Cardinality(gone)
            /\ Items = Except(pre.Items, gone)

\* is the text empty after trimming, as given or with \n unescaped
Blank(t) == TrimSpace(t) = <<>> \/ TrimSpace(Unescape(t)) = <<>>

\* C23: starting from the empty history, no entry ever has empty or
\* whitespace-only content; the interpreter never resolves to Add with a
\* text that is empty after trimming, as given or unescaped; and Add with
\* the empty text fails with EmptyInput and leaves the history unchanged.
NoBlankEntry ==
    LET app == App(Items, index)
    IN  /\ \A i \in DOMAIN Items : TrimSpace(Items[i].Data) # <<>>
        /\ \A i \in DOMAIN file : TrimSpace(file[i].Data) # <<>>
        /\ (Done /\ flags.Operation = OpAdd) => ~Blank(flags.Text)
        /\ (Done /\ NoFlag /\ Len(cl.args) <= 1 /\ ~OneText
                 /\ Blank(cl.stdin.data)) =>
               /\ flags.Operation = OpPaste
               /\ Len(Items) = Len(pre.Items)
        /\ pc = "ready" =>
               \A sil \in BOOLEAN :
                   handle(app, [ZeroFlags EXCEPT !.Operation = OpAdd,
                                                 !.Silent = sil])
                       = Outcome(app, <<>>, EmptyInput)

\* C23 witness: clip " " with only an escaped newline piped in, on a
\* history that is not empty, resolved to Paste and added nothing.
NoBlankEntryWitness ==
    /\ DoneOk /\ NoFlag
    /\ cl.args = <<(<<SP>>)>>
    /\ cl.stdin = Pipe(<<BS, "n">>)
    /\ flags.Operation = OpPaste
    /\ pre.Items # <<>>
    /\ Len(Items) = Len(pre.Items)

----------------------------------------------------------------------------
(* Properties of two invocations on one data file, under SpecRace *)

\* both invocations have ended
AllExited == \A i \in Procs : procs[i].pc = "exit"

\* is t what is left of doc beyond some place
IsTailOf(t, doc) == \E k \in 0..Len(doc) : t = SubSeq(doc, k + 1, Len(doc))

\* C21 (as claimed): after both invocations have ended, the file holds
\* exactly the document of the complete in-memory history of the invocation
\* that wrote last, and nothing of the other's.
FileIsLastWritersDocument ==
    (AllExited /\ last # 0) =>
        /\ Decode(disk) = Decoded(procs[last].app.Items, Nil)
        /\ disk = Encode(procs[last].app.Items)

\* C21 (amended): after both invocations have ended, the history the next
\* load decodes from the file is exactly the complete in-memory history of
\* the invocation that wrote last, and never a mixture; the file holds that
\* invocation's document, after which the end of a longer document written
\* by the other invocation may remain, which the decoder does not read.
\* When neither has written, the file is as it was.
LastWriterWins ==
    /\ Decode(disk).err = Nil
    /\ last # 0 => procs[last].wrote
    /\ (AllExited /\ last # 0) =>
           LET mine == Encode(procs[last].app.Items)
               rest == SubSeq(disk, Len(mine) + 1, Len(disk))
           IN  /\ Decode(disk) = Decoded(procs[last].app.Items, Nil)
               /\ SubSeq(disk, 1, Len(mine)) = mine
               /\ rest # <<>> =>
                      \E j \in Procs \ {last} :
                          /\ procs[j].wrote
                          /\ Len(Encode(procs[j].app.Items)) > Len(mine)
                          /\ IsTailOf(rest, Encode(procs[j].app.Items))
    /\ (AllExited /\ last = 0) =>
           /\ \A i \in Procs : ~procs[i].wrote
           /\ Decode(disk) = Decoded(pre.Items, Nil)

\* C21 witness: both invocations have written, the second last; the file
\* decodes to the second's history, the first's differs and is lost, and
\* the end of the first's longer document remains in the file.
LastWriterWinsWitness ==
    /\ AllExited /\ last = 2
    /\ procs[1].wrote /\ procs[2].wrote
    /\ procs[1].app.Items # procs[2].app.Items
    /\ Decode(disk) = Decoded(procs[2].app.Items, Nil)
    /\ disk # Encode(procs[2].app.Items)

----------------------------------------------------------------------------
(* Properties of the resolver, under SpecResolve *)

\* C5 (as claimed): for n > 0, resolve(i, n) over i in [-n, n-1] is
\* injective and its image is exactly [0, n).
ResolveInjectiveOnWholeRange ==
    LET n == rLen
        D == (-n)..(n - 1)
    IN  n > 0 =>
            /\ \A i, j \in D :
                   i # j => resolveIdx(i, n).idx # resolveIdx(j, n).idx
            /\ {resolveIdx(i, n).idx : i \in D} = 0..(n - 1)

\* C5 (amended): for n > 0, resolve(i, n) is injective over i in [0, n-1]
\* and over i in [-n, -1], each with image exactly [0, n); over the whole
\* of [-n, n-1] every position has the two indices i and i - n.
ResolveInjectiveOnEachSign ==
    LET n   == rLen
        Pos == 0..(n - 1)
        Neg == (-n)..(-1)
    IN  n > 0 =>
            /\ \A D \in {Pos, Neg} :
                   /\ \A i \in D : resolveIdx(i, n).err = Nil
                   /\ \A i, j \in D :
                          i # j => resolveIdx(i, n).idx # resolveIdx(j, n).idx
                   /\ {resolveIdx(i, n).idx : i \in D} = 0..(n - 1)
            /\ \A i \in Pos : resolveIdx(i, n) = resolveIdx(i - n, n)
            /\ (rIdx \in Pos \cup Neg) =>
                   /\ rRes.err = Nil
                   /\ {i \in Pos \cup Neg : resolveIdx(i, n) = rRes}
                          = {rIdx, IF rIdx >= 0 THEN rIdx - n ELSE rIdx + n}

\* C5 witness: an in-range negative index resolved on the longest length.
ResolveInjectiveWitness ==
    rLen = MaxLen /\ rIdx = -MaxLen /\ rRes = Resolved(MaxLen - 1, Nil)

\* C6: resolve(i, n) computes n - i - 1 for i >= 0 and (-i) - 1 for i < 0,
\* returns it when it is in [0, n), and signals OutOfBounds exactly when it
\* is not, that is when i >= n or i < -n, and always when n = 0;
\* resolve(0, n) = n - 1 and resolve(-1, n) = 0 for n > 0.
ResolveFormula ==
    LET i == rIdx
        n == rLen
        v == IF i >= 0 THEN n - i - 1 ELSE (-i) - 1
    IN  /\ (v >= 0 /\ v < n) => rRes = Resolved(v, Nil)
        /\ ~(v >= 0 /\ v < n) => rRes.err = OutOfBounds
        /\ rRes.err = OutOfBounds <=> (i >= n \/ i < -n)
        /\ n = 0 => rRes.err = OutOfBounds
        /\ (n > 0 /\ i = 0) => rRes = Resolved(n - 1, Nil)
        /\ (n > 0 /\ i = -1) => rRes = Resolved(0, Nil)

\* C6 witness: the most negative machine integer, whose negation wraps, is
\* out of bounds.
ResolveFormulaWitness ==
    rIdx = IntMin /\ rLen = MaxLen /\ rRes.err = OutOfBounds

====
